---------------------------- MODULE Spec2Model ----------------------------
(***************************************************************************)
(* Model of the journal-club pipeline:                                     *)
(*   build_journal_club.py  (index, load, reconcile, sort, write)          *)
(*   tag_subjects.py        (load, classify, write, subject frequencies)   *)
(*   populate_sessions.py   (its index builder and row builder)            *)
(*                                                                         *)
(* Python strings are TLA+ strings (TLC gives Len, SubSeq, Head, Tail and  *)
(* \o on them); a character is a string of length 1.  Python's None is the *)
(* value None below, a dict is a function whose DOMAIN is its key set, a   *)
(* list is a sequence.                                                     *)
(***************************************************************************)
EXTENDS Integers, Sequences, FiniteSets, TLC

(***************************************************************************)
(* Bounds of the model.                                                    *)
(***************************************************************************)
MaxArticles == 2   \* articles discovered under the year/month tree
MaxRows     == 2   \* rows of sessions.csv
MaxTokens   == 3   \* tokens of a text handed to the classifier alone

(***************************************************************************)
(* State.                                                                  *)
(***************************************************************************)
VARIABLES
    tree,             \* the parsed ent_all_results.json files, in discovery order
    csv,              \* the rows of sessions.csv
    step,             \* the script the pipeline runs next: "build", "tag", "end"
    run,              \* the pipeline run under way: 1, then 2 (the rerun)
    ent_index,        \* build_journal_club.main: ent_index
    diagnostics,      \* the WARNING lines the build step of this run printed
    build_status,     \* how the last build step ended: "none", "done", "raised"
    tag_status,       \* how the last tag step ended: "none", "done", "raised"
    journal_club,     \* data/journal_club.json
    subject_summary,  \* data/subject_summary.json
    history,          \* the two artifacts as each finished run left them
    populate_index,   \* populate_sessions.main: ent_index
    ran,              \* the index builders and classifier calls that have run
    arg_text,         \* the text handed to assign_subjects
    tags              \* the list it returned

vars == <<tree, csv, step, run, ent_index, diagnostics, build_status, tag_status,
          journal_club, subject_summary, history, populate_index, ran, arg_text, tags>>

\* A file that does not exist.
Absent == [exists |-> FALSE]

\* A JSON file: its document, and whether a newline follows it.
File(doc, newline) == [exists |-> TRUE, doc |-> doc, newline |-> newline]

(***************************************************************************)
(* Python values and string primitives.                                    *)
(***************************************************************************)
\* Python's None.  No string of the input sets contains the character \t,
\* so the value is distinct from every str of the model.
None == "\tNone"

\* bool(v) for v a str or None.
Truthy(v) == v # None /\ v # ""

\* a or b
Or(a, b) == IF Truthy(a) THEN a ELSE b

\* d.get(k): None when the key is absent.
Get(d, k) == IF k \in DOMAIN d THEN d[k] ELSE None

\* d.get(k, dflt)
GetD(d, k, dflt) == IF k \in DOMAIN d THEN d[k] ELSE dflt

\* str(v) for v a str or None.
Str(v) == IF v = None THEN "None" ELSE v

\* Characters str.strip() removes (the whitespace of the input alphabet).
IsSpace(c) == c \in {" ", "\n"}

RECURSIVE LStrip(_)
LStrip(s) == IF s # "" /\ IsSpace(Head(s)) THEN LStrip(Tail(s)) ELSE s

RECURSIVE RStrip(_)
RStrip(s) ==
    IF s # "" /\ IsSpace(SubSeq(s, Len(s), Len(s)))
    THEN RStrip(SubSeq(s, 1, Len(s) - 1))
    ELSE s

\* str.strip()
Strip(s) == RStrip(LStrip(s))

\* The printable ASCII characters in code-point order, from 32 (space).  The
\* backquote (96) cannot be written in a TLA+ string: \f holds its place.
Ascii == " !\"#$%&'()*+,-./0123456789:;<=>?@ABCDEFGHIJKLMNOPQRSTUVWXYZ[\\]^_\fabcdefghijklmnopqrstuvwxyz{|}~"

\* The code point of every character of the alphabet; "\n" is 10.
CodePoint ==
    [c \in {SubSeq(Ascii, i, i) : i \in 1..Len(Ascii)} \cup {"\n"} |->
        IF c = "\n" THEN 10
        ELSE 31 + (CHOOSE i \in 1..Len(Ascii) : SubSeq(Ascii, i, i) = c)]

\* ord(c)
Ord(c) == CodePoint[c]

\* Python's str < str: lexicographic by code point, a proper prefix first.
RECURSIVE StrLess(_, _)
StrLess(a, b) ==
    IF b = "" THEN FALSE
    ELSE IF a = "" THEN TRUE
    ELSE IF Head(a) = Head(b) THEN StrLess(Tail(a), Tail(b))
    ELSE Ord(Head(a)) < Ord(Head(b))

IsUpper(c) == Ord(c) >= 65 /\ Ord(c) <= 90
IsLower(c) == Ord(c) >= 97 /\ Ord(c) <= 122
IsDigit(c) == Ord(c) >= 48 /\ Ord(c) <= 57
IsAlpha(c) == IsUpper(c) \/ IsLower(c)
\* \w of the re module on the input alphabet.
IsWordChar(c) == IsAlpha(c) \/ IsDigit(c) \/ c = "_"

LowerChar(c) == IF IsUpper(c) THEN SubSeq(Ascii, Ord(c) + 1, Ord(c) + 1) ELSE c

\* str.lower()
RECURSIVE Lower(_)
Lower(s) == IF s = "" THEN "" ELSE LowerChar(Head(s)) \o Lower(Tail(s))

\* s[:n]
Prefix(s, n) == SubSeq(s, 1, IF Len(s) < n THEN Len(s) ELSE n)

\* Position of the first character of s that is in the set seps, 0 if none.
RECURSIVE FindSep(_, _, _)
FindSep(s, seps, i) ==
    IF i > Len(s) THEN 0
    ELSE IF SubSeq(s, i, i) \in seps THEN i
    ELSE FindSep(s, seps, i + 1)

\* s.split(sep) for a one-character separator; re.split(r"[;\n]+", s) yields
\* the same non-empty parts (callers drop the empty ones).
RECURSIVE Split(_, _)
Split(s, seps) ==
    LET p == FindSep(s, seps, 1)
    IN  IF p = 0 THEN <<s>>
        ELSE <<SubSeq(s, 1, p - 1)>> \o Split(SubSeq(s, p + 1, Len(s)), seps)

\* [x.strip() for x in parts if x.strip()]
RECURSIVE StripNonEmpty(_)
StripNonEmpty(parts) ==
    IF parts = <<>> THEN <<>>
    ELSE LET x == Strip(Head(parts))
         IN  (IF x = "" THEN <<>> ELSE <<x>>) \o StripNonEmpty(Tail(parts))

\* Whether pat occurs in s at position i.
At(s, pat, i) == i >= 1 /\ i + Len(pat) - 1 <= Len(s) /\ SubSeq(s, i, i + Len(pat) - 1) = pat

\* pat in s
Contains(s, pat) == \E i \in 1..(Len(s) - Len(pat) + 1) : At(s, pat, i)

(***************************************************************************)
(* datetime parsing as build_journal_club.py uses it.  A parse is a record *)
(* [ok, y, m, d]; ok = FALSE stands for the ValueError the callers catch.  *)
(***************************************************************************)
NoDate == [ok |-> FALSE, y |-> 0, m |-> 0, d |-> 0]

RECURSIVE AllDigits(_)
AllDigits(s) == s = "" \/ (IsDigit(Head(s)) /\ AllDigits(Tail(s)))

RECURSIVE AllAlpha(_)
AllAlpha(s) == s = "" \/ (IsAlpha(Head(s)) /\ AllAlpha(Tail(s)))

\* int(s) for a string of decimal digits.
RECURSIVE ParseInt(_)
ParseInt(s) ==
    IF s = "" THEN 0
    ELSE 10 * ParseInt(SubSeq(s, 1, Len(s) - 1)) + (Ord(SubSeq(s, Len(s), Len(s))) - 48)

\* n as a decimal numeral zero-padded to w digits (the %04d / %02d of isoformat).
RECURSIVE Pad(_, _)
Pad(n, w) ==
    IF w = 0 THEN ""
    ELSE Pad(n \div 10, w - 1) \o SubSeq(Ascii, 17 + (n % 10), 17 + (n % 10))

\* The month names %b accepts (C locale), matched case-insensitively.
MonthAbbr == <<"jan", "feb", "mar", "apr", "may", "jun", "jul", "aug", "sep", "oct", "nov", "dec">>

MonthOfAbbr(s) ==
    IF \E i \in 1..12 : MonthAbbr[i] = Lower(s)
    THEN CHOOSE i \in 1..12 : MonthAbbr[i] = Lower(s)
    ELSE 0

IsLeap(y) == (y % 4 = 0 /\ y % 100 # 0) \/ y % 400 = 0

DaysIn(y, m) ==
    IF m = 2 THEN (IF IsLeap(y) THEN 29 ELSE 28)
    ELSE IF m \in {4, 6, 9, 11} THEN 30 ELSE 31

\* The %d directive on the rest of the string: 3[0-1]|[1-2]\d|0[1-9]|[1-9]| [1-9],
\* and nothing may remain unconverted.  0 when it does not match.
DayField(t) ==
    IF Len(t) = 1 /\ IsDigit(t) /\ t # "0" THEN ParseInt(t)
    ELSE IF Len(t) = 2 /\ Head(t) = " " /\ IsDigit(Tail(t)) /\ Tail(t) # "0" THEN ParseInt(Tail(t))
    ELSE IF Len(t) = 2 /\ AllDigits(t) /\ ParseInt(t) >= 1 /\ ParseInt(t) <= 31 THEN ParseInt(t)
    ELSE 0

\* datetime(y, m, d): ValueError when the fields are out of range.
MkDate(y, m, d) ==
    IF y >= 1 /\ y <= 9999 /\ m >= 1 /\ m <= 12 /\ d >= 1 /\ d <= DaysIn(y, m)
    THEN [ok |-> TRUE, y |-> y, m |-> m, d |-> d]
    ELSE NoDate

\* datetime.strptime(s, "%Y-%b-%d")
StrptimeYbd(s) ==
    IF /\ Len(s) >= 10
       /\ AllDigits(SubSeq(s, 1, 4))
       /\ SubSeq(s, 5, 5) = "-"
       /\ MonthOfAbbr(SubSeq(s, 6, 8)) # 0
       /\ SubSeq(s, 9, 9) = "-"
       /\ DayField(SubSeq(s, 10, Len(s))) # 0
    THEN MkDate(ParseInt(SubSeq(s, 1, 4)), MonthOfAbbr(SubSeq(s, 6, 8)), DayField(SubSeq(s, 10, Len(s))))
    ELSE NoDate

\* The %m directive: 1[0-2]|0[1-9]|[1-9], followed by "-".  <<month, width>>,
\* <<0, 0>> when it does not match.
MonthField(s) ==
    IF Len(s) >= 3 /\ AllDigits(SubSeq(s, 1, 2)) /\ ParseInt(SubSeq(s, 1, 2)) \in 1..12 /\ SubSeq(s, 3, 3) = "-"
    THEN <<ParseInt(SubSeq(s, 1, 2)), 2>>
    ELSE IF Len(s) >= 2 /\ IsDigit(Head(s)) /\ Head(s) # "0" /\ SubSeq(s, 2, 2) = "-"
    THEN <<ParseInt(Head(s)), 1>>
    ELSE <<0, 0>>

\* datetime.strptime(s, "%Y-%m-%d")
StrptimeYmd(s) ==
    IF Len(s) >= 8 /\ AllDigits(SubSeq(s, 1, 4)) /\ SubSeq(s, 5, 5) = "-"
    THEN LET mf == MonthField(SubSeq(s, 6, Len(s)))
             dd == DayField(SubSeq(s, 6 + mf[2] + 1, Len(s)))
         IN  IF mf[1] # 0 /\ dd # 0 THEN MkDate(ParseInt(SubSeq(s, 1, 4)), mf[1], dd) ELSE NoDate
    ELSE NoDate

\* datetime.fromisoformat(s) on the calendar-date form YYYY-MM-DD.  The input
\* sets hold no other ISO-8601 shape (compact, week or time-of-day forms), on
\* which this definition says ValueError.
FromIsoFormat(s) ==
    IF /\ Len(s) = 10
       /\ AllDigits(SubSeq(s, 1, 4)) /\ SubSeq(s, 5, 5) = "-"
       /\ AllDigits(SubSeq(s, 6, 7)) /\ SubSeq(s, 8, 8) = "-"
       /\ AllDigits(SubSeq(s, 9, 10))
    THEN MkDate(ParseInt(SubSeq(s, 1, 4)), ParseInt(SubSeq(s, 6, 7)), ParseInt(SubSeq(s, 9, 10)))
    ELSE NoDate

\* dt.date().isoformat()
IsoFormat(dt) == Pad(dt.y, 4) \o "-" \o Pad(dt.m, 2) \o "-" \o Pad(dt.d, 2)

\* dt.strftime("%Y-%m")
StrftimeYm(dt) == Pad(dt.y, 4) \o "-" \o Pad(dt.m, 2)

\* re.fullmatch(r"\d{4}-[A-Za-z]{3}", s)
IsYearMon(s) == Len(s) = 8 /\ AllDigits(SubSeq(s, 1, 4)) /\ SubSeq(s, 5, 5) = "-" /\ AllAlpha(SubSeq(s, 6, 8))

\* re.fullmatch(r"\d{4}-\d{2}", s)
IsYearMM(s) == Len(s) = 7 /\ AllDigits(SubSeq(s, 1, 4)) /\ SubSeq(s, 5, 5) = "-" /\ AllDigits(SubSeq(s, 6, 7))

\* The try block of normalize_date on the selected, trimmed string.
ParseDate(date_str) ==
    IF Len(date_str) = 11 /\ SubSeq(date_str, 5, 5) = "-" /\ SubSeq(date_str, 9, 9) = "-"
    THEN StrptimeYbd(date_str)
    ELSE IF IsYearMon(date_str) THEN StrptimeYbd(date_str \o "-01")
    ELSE IF IsYearMM(date_str) THEN StrptimeYmd(date_str \o "-01")
    ELSE FromIsoFormat(date_str)

\* normalize_date(date_str_from_session, date_str_from_pub)
normalize_date(date_str_from_session, date_str_from_pub) ==
    LET date_str == Strip(Or(date_str_from_session, Or(date_str_from_pub, "")))
        dt       == ParseDate(date_str)
    IN  IF date_str = "" THEN ""
        ELSE IF dt.ok THEN IsoFormat(dt)
        ELSE date_str

\* The try block of normalize_month.
ParseMonth(raw_month) ==
    IF IsYearMon(raw_month) THEN StrptimeYbd(raw_month \o "-01")
    ELSE IF IsYearMM(raw_month) THEN StrptimeYmd(raw_month \o "-01")
    ELSE FromIsoFormat(raw_month)

\* normalize_month(month_field, date_iso)
normalize_month(month_field, date_iso) ==
    LET raw_month == Strip(Or(month_field, ""))
        dt        == ParseMonth(raw_month)
    IN  IF raw_month = "" /\ date_iso # "" THEN Prefix(date_iso, 7)
        ELSE IF dt.ok THEN StrftimeYm(dt)
        ELSE IF raw_month # "" THEN Prefix(raw_month, 7)
        ELSE ""

(***************************************************************************)
(* Field parsers of build_journal_club.py.                                 *)
(***************************************************************************)
\* parse_bool(val) for val a str or None.
parse_bool(val) ==
    IF val = None THEN FALSE
    ELSE Lower(Strip(val)) \in {"1", "true", "yes", "y", "highlight", "t"}

\* parse_subjects(subjects_field): split on ";" and then on ",".
parse_subjects(subjects_field) ==
    IF ~Truthy(subjects_field) THEN <<>>
    ELSE StripNonEmpty(Split(subjects_field, {";", ","}))

\* parse_highlights(highlights_field) for a str or None.
parse_highlights(highlights_field) ==
    IF ~Truthy(highlights_field) THEN <<>>
    ELSE StripNonEmpty(Split(Strip(highlights_field), {";", "\n"}))

\* One entry of the delimited-text branch of parse_images, then
\* normalise_image: split on the first "|", else on the first ",", trim both
\* halves, and drop the entry when its url is empty.
ImageOfEntry(entry) ==
    LET bar   == FindSep(entry, {"|"}, 1)
        comma == FindSep(entry, {","}, 1)
        cut   == IF bar # 0 THEN bar ELSE comma
        url   == Strip(IF cut = 0 THEN entry ELSE SubSeq(entry, 1, cut - 1))
        cap   == Strip(IF cut = 0 THEN "" ELSE SubSeq(entry, cut + 1, Len(entry)))
    IN  IF url = "" THEN <<>> ELSE <<[url |-> url, caption |-> cap]>>

RECURSIVE ImagesOfEntries(_)
ImagesOfEntries(entries) ==
    IF entries = <<>> THEN <<>>
    ELSE ImageOfEntry(Head(entries)) \o ImagesOfEntries(Tail(entries))

\* parse_images(field) for a str or None.  The image strings of the input
\* sets are not JSON texts: json.loads raises on them and the delimited-text
\* branch runs.
parse_images(field) ==
    IF ~Truthy(field) THEN <<>>
    ELSE ImagesOfEntries(StripNonEmpty(Split(Strip(field), {";", "\n"})))

(***************************************************************************)
(* tag_subjects.py: the rule table and the classifier.                     *)
(***************************************************************************)
\* compile_rules(): the rules in the order of raw_rules, each pattern compiled
\* with re.IGNORECASE.
SUBJECT_RULES == <<
    [name |-> "Rhinology & Allergy",
     patterns |-> <<"rhino", "sinus", "nasal", "nose", "septum", "polyp", "olfact", "smell", "sinonasal", "nasophary", "epistaxis">>],
    [name |-> "Otology & Neurotology",
     patterns |-> <<"cochlea", "ear", "otic", "tympan", "mastoid", "ossicul", "vestib", "tinnitus", "hearing", "ossicular", "otos", "eustachian">>],
    [name |-> "Audiology & Hearing Science",
     patterns |-> <<"audiology", "audiogram", "speech perception", "listening", "hearing aid", "cochlear implant">>],
    [name |-> "Laryngology & Voice",
     patterns |-> <<"laryn", "vocal cord", "voice", "phonation", "glott", "dysphonia", "esophag">>],
    [name |-> "Airway & Trachea",
     patterns |-> <<"airway", "trache", "bronch", "intubat", "decann", "stent">>],
    [name |-> "Sleep Medicine",
     patterns |-> <<"sleep", "apnea", "hypopnea", "cpap", "osa\\b">>],
    [name |-> "Head & Neck Oncology",
     patterns |-> <<"carcinoma", "cancer", "tumou?r", "neoplasm", "sarcoma", "oncology", "malignan", "papilloma">>],
    [name |-> "Endocrine (Thyroid/Parathyroid)",
     patterns |-> <<"thyroid", "parathy", "endocrine">>],
    [name |-> "Salivary & Oral Cavity",
     patterns |-> <<"salivar", "parotid", "submandibular", "sublingual", "sialo", "oral cavity", "tongue", "palate", "tonsil">>],
    [name |-> "Facial Plastics & Reconstruction",
     patterns |-> <<"facial", "reconstruct", "rhinoplast", "cleft", "aesthe", "cosmetic", "flap", "graft", "scar">>],
    [name |-> "Skull Base & Cranial",
     patterns |-> <<"skull base", "cranial", "intracran", "cerebrospinal", "csf", "pituitar", "meningioma">>],
    [name |-> "Trauma",
     patterns |-> <<"trauma", "fracture", "injur", "gunshot", "laceration">>],
    [name |-> "Infectious Disease",
     patterns |-> <<"infect", "viral", "bacterial", "fungal", "abscess", "mycobacter", "sepsis">>]
>>

\* The alternatives of PEDIATRIC_PATTERN, between two \b.
PEDIATRIC_WORDS == <<"pediatric", "child", "children", "infant", "neonate", "adolesc", "toddler", "newborn">>

\* \b at the gap before position i of s (1 <= i <= Len(s) + 1): exactly one of
\* the two neighbouring characters is a word character.
WordBoundary(s, i) ==
    LET before == i > 1 /\ IsWordChar(SubSeq(s, i - 1, i - 1))
        after  == i <= Len(s) /\ IsWordChar(SubSeq(s, i, i))
    IN  before # after

\* pattern.search(text) for a pattern of the rule table, on the lower-cased
\* text (re.IGNORECASE; the patterns are lower case).  Two patterns use regex
\* syntax: "tumou?r" (optional u) and "osa\b" (word boundary after osa); every
\* other one is a literal.
Search(pat, low) ==
    IF pat = "tumou?r" THEN Contains(low, "tumor") \/ Contains(low, "tumour")
    ELSE IF pat = "osa\\b" THEN \E i \in 1..(Len(low) - 2) : At(low, "osa", i) /\ WordBoundary(low, i + 3)
    ELSE Contains(low, pat)

\* SubjectRule.matches(text)
RuleMatches(rule, low) == \E k \in 1..Len(rule.patterns) : Search(rule.patterns[k], low)

\* PEDIATRIC_PATTERN.search(text)
PediatricMatches(low) ==
    \E k \in 1..Len(PEDIATRIC_WORDS) :
        \E i \in 1..(Len(low) - Len(PEDIATRIC_WORDS[k]) + 1) :
            /\ At(low, PEDIATRIC_WORDS[k], i)
            /\ WordBoundary(low, i)
            /\ WordBoundary(low, i + Len(PEDIATRIC_WORDS[k]))

\* The least string of a non-empty set under Python's string order.
MinStr(S) == CHOOSE x \in S : \A y \in S : ~StrLess(y, x)

\* sorted(set(...))
RECURSIVE SortedSet(_)
SortedSet(S) == IF S = {} THEN <<>> ELSE <<MinStr(S)>> \o SortedSet(S \ {MinStr(S)})

\* [rule.name for rule in SUBJECT_RULES if rule.matches(text)]
RECURSIVE RuleNames(_, _)
RuleNames(k, low) ==
    IF k > Len(SUBJECT_RULES) THEN <<>>
    ELSE (IF RuleMatches(SUBJECT_RULES[k], low) THEN <<SUBJECT_RULES[k].name>> ELSE <<>>)
         \o RuleNames(k + 1, low)

\* Faulty variant of MatchList: the pediatric pattern is tried only when no topic rule
\* matched.
MatchListPediatricElse(text) ==
    LET low == Lower(text)
        m1  == RuleNames(1, low)
    IN  IF m1 # <<>> THEN m1
        ELSE IF PediatricMatches(low) THEN <<"Pediatrics">>
        ELSE <<"General ENT/Other">>

\* The list assign_subjects has built before it sorts it.
MatchList(text) ==
    LET low == Lower(text)
        m1  == RuleNames(1, low)
        m2  == IF PediatricMatches(low) THEN Append(m1, "Pediatrics") ELSE m1
    IN  IF m2 = <<>> THEN <<"General ENT/Other">> ELSE m2

\* assign_subjects(text)
assign_subjects(text) ==
    LET matches == MatchList(text)
    IN  SortedSet({matches[k] : k \in 1..Len(matches)})

(***************************************************************************)
(* Sorting as list.sort / sorted do it on [key, val] pairs: stable         *)
(* insertion.  order is "desc" (reverse=True on str keys), "asc" (str      *)
(* keys) or "count_desc" (int keys, reverse=True).                         *)
(***************************************************************************)
\* Whether the pair e, already placed, must come after the new pair x.
ComesAfter(e, x, order) ==
    IF order = "desc" THEN StrLess(e.key, x.key)
    ELSE IF order = "asc" THEN StrLess(x.key, e.key)
    ELSE e.key < x.key

RECURSIVE InsertStable(_, _, _)
InsertStable(sorted, x, order) ==
    IF sorted = <<>> THEN <<x>>
    ELSE IF ComesAfter(Head(sorted), x, order) THEN <<x>> \o sorted
    ELSE <<Head(sorted)>> \o InsertStable(Tail(sorted), x, order)

RECURSIVE SortStable(_, _, _)
SortStable(done, todo, order) ==
    IF todo = <<>> THEN done
    ELSE SortStable(InsertStable(done, Head(todo), order), Tail(todo), order)

Vals(pairs) == [k \in 1..Len(pairs) |-> pairs[k].val]

\* Faulty variant of SortByDateDesc: reverse=True is missing.
SortByDateAsc(out) ==
    Vals(SortStable(<<>>, [k \in 1..Len(out) |-> [key |-> out[k].date, val |-> out[k]]], "asc"))

\* out.sort(key=lambda r: r["date"], reverse=True): the original order is kept
\* among equal dates.
SortByDateDesc(out) ==
    Vals(SortStable(<<>>, [k \in 1..Len(out) |-> [key |-> out[k].date, val |-> out[k]]], "desc"))

\* [monthly_summaries[m] for m in sorted(monthly_summaries.keys(), reverse=True)]
SortByMonthDesc(summaries) ==
    Vals(SortStable(<<>>, [k \in 1..Len(summaries) |-> [key |-> summaries[k].month, val |-> summaries[k]]], "desc"))

(***************************************************************************)
(* build_journal_club.py: the index and the reconciliation loop.           *)
(***************************************************************************)
\* index[pmid] = a
DictSet(index, key, val) ==
    [k \in (DOMAIN index) \cup {key} |-> IF k = key THEN val ELSE index[k]]

\* Faulty variant of IndexArticle: the "if pmid" guard is missing.
IndexArticleAnyId(index, a) == DictSet(index, Strip(Str(GetD(a, "PMID", ""))), a)

\* Faulty variant of IndexArticle: an identifier already indexed is kept.
IndexArticleFirstWins(index, a) ==
    LET pmid == Strip(Str(GetD(a, "PMID", "")))
    IN  IF pmid # "" /\ pmid \notin DOMAIN index THEN DictSet(index, pmid, a) ELSE index

\* The body of "for a in articles" in load_ent_index: last discovery wins.
IndexArticle(index, a) ==
    LET pmid == Strip(Str(GetD(a, "PMID", "")))
    IN  IF pmid # "" THEN DictSet(index, pmid, a) ELSE index

RECURSIVE IndexFile(_, _)
IndexFile(index, articles) ==
    IF articles = <<>> THEN index
    ELSE IndexFile(IndexArticle(index, Head(articles)), Tail(articles))

RECURSIVE IndexTree(_, _)
IndexTree(index, files) ==
    IF files = <<>> THEN index
    ELSE IndexTree(IndexFile(index, Head(files)), Tail(files))

\* load_ent_index(): files is the list of parsed ent_all_results.json files in
\* the order the two globs discover them.
load_ent_index(files) == IndexTree(<<>>, files)

\* The dict main() appends to out for the row s matched with the article art.
SessionOf(s, art, pmid) ==
    LET pub_date == Or(Get(art, "Publication_Date"), Get(art, "PublicationDate"))
        s_title    == Strip(Or(Get(s, "title"), ""))
        s_journal  == Strip(Or(Get(s, "journal"), ""))
        s_authors  == Strip(Or(Get(s, "authors"), ""))
        s_abstract == Strip(Or(Get(s, "abstract"), ""))
    IN  [date      |-> normalize_date(Get(s, "date"), pub_date),
         presenter |-> Strip(GetD(s, "presenter", "")),
         title     |-> Or(s_title, Strip(Or(GetD(art, "Title", ""), ""))),
         journal   |-> Or(s_journal, Strip(Or(GetD(art, "Journal", ""), ""))),
         authors   |-> Or(s_authors, Strip(Or(GetD(art, "Authors", ""), ""))),
         abstract  |-> Or(s_abstract, Strip(Or(GetD(art, "Abstract", ""), ""))),
         doi       |-> Strip(Or(GetD(art, "DOI", ""), "")),
         pmid      |-> pmid,
         pdf       |-> Strip(Or(GetD(s, "pdf", ""), "https://pubmed.ncbi.nlm.nih.gov/" \o pmid \o "/")),
         notes     |-> Strip(GetD(s, "notes", "")),
         subjects  |-> parse_subjects(Get(s, "subjects")),
         highlight |-> parse_bool(Get(s, "highlight")),
         analysis  |-> Strip(Or(Get(s, "analysis"), "")),
         images    |-> parse_images(Get(s, "images"))]

\* Whether assembling the dict raises: s.get("presenter", "").strip() and
\* s.get("notes", "").strip() are called on None when the header has the column
\* and the row gives it no value (csv.DictReader fills None).
RowRaises(s) == GetD(s, "presenter", "") = None \/ GetD(s, "notes", "") = None

\* Faulty variant of SetDefault: monthly_summaries[month] = bundle, the last row wins.
SetOverwrite(summaries, bundle) ==
    IF \E k \in 1..Len(summaries) : summaries[k].month = bundle.month
    THEN [k \in 1..Len(summaries) |-> IF summaries[k].month = bundle.month THEN bundle ELSE summaries[k]]
    ELSE Append(summaries, bundle)

\* monthly_summaries.setdefault(month, bundle): the dict keeps insertion order.
SetDefault(summaries, bundle) ==
    IF \E k \in 1..Len(summaries) : summaries[k].month = bundle.month
    THEN summaries
    ELSE Append(summaries, bundle)

\* The monthly-summary part of one loop iteration.
RegisterSummary(summaries, s, date_iso) ==
    LET summary_month      == normalize_month(Get(s, "summary_month"), date_iso)
        summary_headline   == Strip(Or(Get(s, "summary_headline"), ""))
        summary_paragraph  == Strip(Or(Get(s, "summary_paragraph"), ""))
        summary_highlights == parse_highlights(Get(s, "summary_highlights"))
    IN  IF summary_month # "" /\ (summary_headline # "" \/ summary_paragraph # "" \/ summary_highlights # <<>>)
        THEN SetDefault(summaries, [month          |-> summary_month,
                                    headline       |-> summary_headline,
                                    paragraph      |-> summary_paragraph,
                                    key_highlights |-> summary_highlights])
        ELSE summaries

Warning(pmid) == "WARNING: PMID " \o pmid \o " from sessions.csv not found in any ent_all_results.json"

\* One iteration of "for s in sessions" on the accumulator
\* [out, monthly_summaries, printed, raised].
BuildRow(acc, s, index) ==
    LET pmid == Strip(Str(GetD(s, "pmid", "")))
    IN  IF pmid \notin DOMAIN index
        THEN [acc EXCEPT !.printed = Append(@, Warning(pmid))]
        ELSE IF RowRaises(s)
        THEN [acc EXCEPT !.raised = TRUE]
        ELSE LET session == SessionOf(s, index[pmid], pmid)
             IN  [acc EXCEPT !.out = Append(@, session),
                             !.monthly_summaries = RegisterSummary(@, s, session.date)]

RECURSIVE BuildLoop(_, _, _)
BuildLoop(acc, rows, index) ==
    IF rows = <<>> \/ acc.raised THEN acc
    ELSE BuildLoop(BuildRow(acc, Head(rows), index), Tail(rows), index)

\* Faulty variant of Payload: the sessions already in the file are kept and the new
\* ones merged in.
PayloadMerged(acc) ==
    [sessions          |-> SortByDateDesc((IF journal_club.exists THEN journal_club.doc.sessions ELSE <<>>) \o acc.out),
     monthly_summaries |-> SortByMonthDesc(acc.monthly_summaries)]

\* The payload main() serialises into data/journal_club.json.
Payload(acc) ==
    [sessions          |-> SortByDateDesc(acc.out),
     monthly_summaries |-> SortByMonthDesc(acc.monthly_summaries)]

(***************************************************************************)
(* populate_sessions.py: its index builder keeps the first discovery.      *)
(***************************************************************************)
PopulateIndexArticle(index, art) ==
    LET pmid == Strip(Str(GetD(art, "PMID", "")))
    IN  IF pmid # "" /\ pmid \notin DOMAIN index THEN DictSet(index, pmid, art) ELSE index

RECURSIVE PopulateIndexFile(_, _)
PopulateIndexFile(index, articles) ==
    IF articles = <<>> THEN index
    ELSE PopulateIndexFile(PopulateIndexArticle(index, Head(articles)), Tail(articles))

RECURSIVE PopulateIndexTree(_, _)
PopulateIndexTree(index, files) ==
    IF files = <<>> THEN index
    ELSE PopulateIndexTree(PopulateIndexFile(index, Head(files)), Tail(files))

\* populate_sessions.load_ent_index(root)
populate_load_ent_index(files) == PopulateIndexTree(<<>>, files)

(***************************************************************************)
(* tag_subjects.py: update_sessions and write_output.                      *)
(***************************************************************************)
\* " ".join(filter(None, parts))
RECURSIVE JoinNonEmpty(_)
JoinNonEmpty(parts) ==
    IF parts = <<>> THEN ""
    ELSE LET rest == JoinNonEmpty(Tail(parts))
         IN  IF Head(parts) = "" THEN rest
             ELSE IF rest = "" THEN Head(parts)
             ELSE Head(parts) \o " " \o rest

SessionText(session) ==
    JoinNonEmpty(<<session.title, session.journal, session.abstract, session.notes>>)

\* update_sessions(sessions)
update_sessions(sessions) ==
    [k \in 1..Len(sessions) |->
        [sessions[k] EXCEPT !.subjects = assign_subjects(SessionText(sessions[k]))]]

\* counter[subject] += 1 on a Counter kept as the list of its items in
\* insertion order.
CounterAdd(counter, subject) ==
    IF \E k \in 1..Len(counter) : counter[k].subject = subject
    THEN [k \in 1..Len(counter) |->
            IF counter[k].subject = subject
            THEN [counter[k] EXCEPT !.n = @ + 1]
            ELSE counter[k]]
    ELSE Append(counter, [subject |-> subject, n |-> 1])

RECURSIVE CounterAddAll(_, _)
CounterAddAll(counter, subjects) ==
    IF subjects = <<>> THEN counter
    ELSE CounterAddAll(CounterAdd(counter, Head(subjects)), Tail(subjects))

\* by_month[month][subject] += 1 for every subject of one session; the
\* defaultdict makes the month's Counter on first use.
ByMonthAdd(by_month, session) ==
    LET month == IF session.date # "" THEN Prefix(session.date, 7) ELSE "unknown"
    IN  IF session.subjects = <<>> THEN by_month
        ELSE IF \E k \in 1..Len(by_month) : by_month[k].month = month
        THEN [k \in 1..Len(by_month) |->
                IF by_month[k].month = month
                THEN [by_month[k] EXCEPT !.counts = CounterAddAll(@, session.subjects)]
                ELSE by_month[k]]
        ELSE Append(by_month, [month |-> month, counts |-> CounterAddAll(<<>>, session.subjects)])

RECURSIVE ByMonth(_, _)
ByMonth(by_month, sessions) ==
    IF sessions = <<>> THEN by_month
    ELSE ByMonth(ByMonthAdd(by_month, Head(sessions)), Tail(sessions))

\* counter.most_common(): by count descending, ties in insertion order.
MostCommon(counter) ==
    Vals(SortStable(<<>>, [k \in 1..Len(counter) |-> [key |-> counter[k].n, val |-> counter[k]]], "count_desc"))

\* The subject-frequency document write_output serialises: months ascending.
SubjectSummary(sessions) ==
    LET by_month == ByMonth(<<>>, sessions)
        months   == Vals(SortStable(<<>>, [k \in 1..Len(by_month) |-> [key |-> by_month[k].month, val |-> by_month[k]]], "asc"))
    IN  [k \in 1..Len(months) |->
            [month |-> months[k].month, counts |-> MostCommon(months[k].counts)]]

(***************************************************************************)
(* Inputs.  An article is one object of an ent_all_results.json array, a   *)
(* row is one dict csv.DictReader yields for sessions.csv: every row of a  *)
(* table has the header's columns as keys, and a row shorter than the      *)
(* header has None in the columns it does not reach.                       *)
(***************************************************************************)
Articles == {
    [PMID |-> "111", Title |-> "Ear", Journal |-> "J Oto", Authors |-> "Lee", Abstract |-> "",
     DOI |-> " 10.1/x ", Publication_Date |-> "2025-Oct-31"],
    [PMID |-> " 111 ", Title |-> " Nose ", Journal |-> None, Authors |-> "", Abstract |-> "child",
     DOI |-> "", Publication_Date |-> "2024-Feb-30"],
    [PMID |-> "222", Title |-> None, Abstract |-> "OSA", DOI |-> None, PublicationDate |-> " 2023-Dec-01 "],
    [PMID |-> " ", Title |-> "x", Journal |-> "", Authors |-> "", Abstract |-> "", DOI |-> "",
     Publication_Date |-> "2022-Jan-05"]
}

Rows == {
    \* matched, curated values filled
    [pmid |-> "111", date |-> "Fall 2024", presenter |-> " Dr A ", title |-> "Custom", journal |-> "",
     authors |-> " ", abstract |-> "", doi |-> "10.9/c", pdf |-> "", notes |-> "", subjects |-> "a, b;c",
     highlight |-> "Yes", analysis |-> "", images |-> "u|c;v", summary_month |-> "2025-03",
     summary_headline |-> "H1", summary_paragraph |-> "", summary_highlights |-> ""],
    \* matched, curated values empty or blank
    [pmid |-> " 111 ", date |-> " ", presenter |-> "", title |-> " ", journal |-> "",
     authors |-> "", abstract |-> "", doi |-> "", pdf |-> "", notes |-> "sinus", subjects |-> "",
     highlight |-> "", analysis |-> " n ", images |-> "", summary_month |-> "2025-Mar",
     summary_headline |-> "", summary_paragraph |-> "P2", summary_highlights |-> ""],
    \* matched, no curated date, summary month left to the session date
    [pmid |-> "222", date |-> "", presenter |-> "B", title |-> "", journal |-> "",
     authors |-> "", abstract |-> "", doi |-> "", pdf |-> "http://p", notes |-> "", subjects |-> "",
     highlight |-> "0", analysis |-> "", images |-> "", summary_month |-> "",
     summary_headline |-> "", summary_paragraph |-> "", summary_highlights |-> "k1;k2"],
    \* blank identifier
    [pmid |-> " ", date |-> "2024-06-06", presenter |-> "E", title |-> "T5", journal |-> "",
     authors |-> "", abstract |-> "", doi |-> "", pdf |-> "", notes |-> "", subjects |-> "",
     highlight |-> "", analysis |-> "", images |-> "", summary_month |-> "",
     summary_headline |-> "H5", summary_paragraph |-> "", summary_highlights |-> ""],
    \* a line with two fields only: the other columns have no value
    [pmid |-> "222", date |-> "TBD", presenter |-> None, title |-> None, journal |-> None,
     authors |-> None, abstract |-> None, doi |-> None, pdf |-> None, notes |-> None, subjects |-> None,
     highlight |-> None, analysis |-> None, images |-> None, summary_month |-> None,
     summary_headline |-> None, summary_paragraph |-> None, summary_highlights |-> None],
    \* a row under the ten-column header populate_sessions.py writes
    [date |-> "2025-Oct", presenter |-> "C", pmid |-> "111", title |-> "", journal |-> "JX",
     authors |-> "", doi |-> "", abstract |-> "", notes |-> "", pdf |-> ""]
}

\* The sequences over S of length at most n.
SeqsUpTo(S, n) == UNION {[1..k -> S] : k \in 0..n}

\* The tables csv.DictReader can yield: all rows under one header.
Tables ==
    {t \in SeqsUpTo(Rows, MaxRows) : \A i, j \in 1..Len(t) : DOMAIN t[i] = DOMAIN t[j]}

\* The discovered articles cut into two files at every place.
Trees ==
    UNION {{<<SubSeq(as, 1, k), SubSeq(as, k + 1, Len(as))>> : k \in 0..Len(as)} :
              as \in SeqsUpTo(Articles, MaxArticles)}

\* One file per discovered article (a month directory each).
MonthTrees == {[k \in 1..Len(as) |-> <<as[k]>>] : as \in SeqsUpTo(Articles, MaxArticles)}

\* Texts for the classifier alone: concatenations of tokens.
Tokens == {"Hearing aid", " ", "children", "child", "hood", "OSA", "s", "Tumour"}

RECURSIVE Concat(_)
Concat(ts) == IF ts = <<>> THEN "" ELSE Head(ts) \o Concat(Tail(ts))

Texts == {Concat(ts) : ts \in SeqsUpTo(Tokens, MaxTokens)}

\* The accumulator of main() before its loop.
EmptyAcc == [out |-> <<>>, monthly_summaries |-> <<>>, printed |-> <<>>, raised |-> FALSE]

\* main() of build_journal_club.py up to the end of its loop.
BuildResult(files, rows) == BuildLoop(EmptyAcc, rows, load_ent_index(files))

Idle ==
    /\ step = "end" /\ run = 0
    /\ ent_index = <<>> /\ diagnostics = <<>>
    /\ build_status = "none" /\ tag_status = "none"
    /\ journal_club = Absent /\ subject_summary = Absent
    /\ history = <<>>

(***************************************************************************)
(* The pipeline: build_journal_club.py, then tag_subjects.py, run again on *)
(* the same inputs.                                                        *)
(***************************************************************************)
Init ==
    /\ tree \in MonthTrees
    /\ csv \in Tables
    /\ step = "build" /\ run = 1
    /\ ent_index = <<>> /\ diagnostics = <<>>
    /\ build_status = "none" /\ tag_status = "none"
    /\ journal_club = Absent /\ subject_summary = Absent
    /\ history = <<>>
    /\ populate_index = <<>> /\ ran = {}
    /\ arg_text = "" /\ tags = <<>>

\* build_journal_club.main(): an exception in the loop ends the script before
\* it writes; otherwise the artifact is replaced whole.
BuildMain ==
    /\ step = "build"
    /\ \E acc \in {BuildResult(tree, csv)} :
           /\ ent_index' = load_ent_index(tree)
           /\ diagnostics' = acc.printed
           /\ build_status' = IF acc.raised THEN "raised" ELSE "done"
           /\ journal_club' = IF acc.raised THEN journal_club ELSE File(Payload(acc), FALSE)
    /\ step' = "tag"
    /\ UNCHANGED <<tree, csv, run, tag_status, subject_summary, history, populate_index, ran, arg_text, tags>>

\* The document write_output puts in data/journal_club.json.
TagDocument(sessions) == [sessions |-> sessions]

\* tag_subjects.main(): load_sessions raises when the file is missing; else
\* both artifacts are replaced whole.
TagMain ==
    /\ step = "tag"
    /\ IF journal_club = Absent
       THEN /\ tag_status' = "raised"
            /\ UNCHANGED <<journal_club, subject_summary>>
       ELSE \E sessions \in {update_sessions(journal_club.doc.sessions)} :
                /\ tag_status' = "done"
                /\ journal_club' = File(TagDocument(sessions), TRUE)
                /\ subject_summary' = File(SubjectSummary(sessions), TRUE)
    /\ history' = Append(history, [journal_club |-> journal_club', subject_summary |-> subject_summary'])
    /\ IF run = 1
       THEN step' = "build" /\ run' = run + 1
       ELSE step' = "end" /\ run' = run
    /\ UNCHANGED <<tree, csv, ent_index, diagnostics, build_status, populate_index, ran, arg_text, tags>>

Next == BuildMain \/ TagMain

Spec == Init /\ [][Next]_vars

(***************************************************************************)
(* The two index builders on the same tree.                                *)
(***************************************************************************)
InitIndex ==
    /\ tree \in Trees
    /\ csv = <<>>
    /\ Idle
    /\ populate_index = <<>> /\ ran = {}
    /\ arg_text = "" /\ tags = <<>>

BuildLoadEntIndex ==
    /\ "build" \notin ran
    /\ ent_index' = load_ent_index(tree)
    /\ ran' = ran \cup {"build"}
    /\ UNCHANGED <<tree, csv, step, run, diagnostics, build_status, tag_status, journal_club,
                   subject_summary, history, populate_index, arg_text, tags>>

PopulateLoadEntIndex ==
    /\ "populate" \notin ran
    /\ populate_index' = populate_load_ent_index(tree)
    /\ ran' = ran \cup {"populate"}
    /\ UNCHANGED <<tree, csv, step, run, ent_index, diagnostics, build_status, tag_status, journal_club,
                   subject_summary, history, arg_text, tags>>

NextIndex == BuildLoadEntIndex \/ PopulateLoadEntIndex

SpecIndex == InitIndex /\ [][NextIndex]_vars

(***************************************************************************)
(* The classifier on a text of its own.                                    *)
(***************************************************************************)
InitClassify ==
    /\ tree = <<>> /\ csv = <<>>
    /\ Idle
    /\ populate_index = <<>> /\ ran = {}
    /\ arg_text \in Texts /\ tags = <<>>

AssignSubjects ==
    /\ "classify" \notin ran
    /\ tags' = assign_subjects(arg_text)
    /\ ran' = ran \cup {"classify"}
    /\ UNCHANGED <<tree, csv, step, run, ent_index, diagnostics, build_status, tag_status, journal_club,
                   subject_summary, history, populate_index, arg_text>>

NextClassify == AssignSubjects

SpecClassify == InitClassify /\ [][NextClassify]_vars

(***************************************************************************)
(* Vocabulary of the properties.                                           *)
(***************************************************************************)
\* A value as the specification reads it: no value is the empty string, and
\* a value counts after trimming.
Trimmed(v) == IF v = None THEN "" ELSE Strip(v)

\* The curated value of a column of row i, the row's identifier.
Curated(i, col) == Trimmed(Get(csv[i], col))
RowId(i) == Curated(i, "pmid")

\* The rows the index matches, and the article of a matched row.
Matched == {i \in 1..Len(csv) : RowId(i) \in DOMAIN ent_index}
ArticleOf(i) == ent_index[RowId(i)]
Extracted(i, key) == Trimmed(Get(ArticleOf(i), key))

\* The build step has just written the artifact.
BuildWrote == step = "tag" /\ build_status = "done"

\* The sessions in data/journal_club.json.
Sessions == journal_club.doc.sessions

\* C1's rule: the curated value when non-empty, else the extracted value
\* (which is empty when there is none).
Merged(curated, extracted) == IF curated # "" THEN curated ELSE extracted

\* The five merged fields the rule gives the session of matched row i.
MergedFields(i) ==
    [pmid     |-> RowId(i),
     title    |-> Merged(Curated(i, "title"), Extracted(i, "Title")),
     journal  |-> Merged(Curated(i, "journal"), Extracted(i, "Journal")),
     authors  |-> Merged(Curated(i, "authors"), Extracted(i, "Authors")),
     abstract |-> Merged(Curated(i, "abstract"), Extracted(i, "Abstract")),
     doi      |-> Merged(Curated(i, "doi"), Extracted(i, "DOI"))]

FieldsOf(session) ==
    [pmid |-> session.pmid, title |-> session.title, journal |-> session.journal,
     authors |-> session.authors, abstract |-> session.abstract, doi |-> session.doi]

\* C1: when the build step has written its artifact, the sessions carry
\* exactly the merged fields of the matched rows, one session per row: for each
\* of title, journal, authors, abstract and DOI the curated value if it is
\* non-empty after trimming, else the extracted value, else "".
C1_MergePrecedence ==
    BuildWrote =>
        /\ \A i \in Matched :
              Cardinality({k \in 1..Len(Sessions) : FieldsOf(Sessions[k]) = MergedFields(i)})
                  = Cardinality({j \in Matched : MergedFields(j) = MergedFields(i)})
        /\ \A k \in 1..Len(Sessions) : \E i \in Matched : FieldsOf(Sessions[k]) = MergedFields(i)

\* C1's case: a matched row has a curated DOI and its article another one.
C1_Witness ==
    /\ BuildWrote
    /\ \E i \in Matched : Curated(i, "doi") # "" /\ Extracted(i, "DOI") # "" /\ Curated(i, "doi") # Extracted(i, "DOI")

\* The identifiers of the rows the index does not match, in table order.
RECURSIVE UnmatchedIds(_)
UnmatchedIds(i) ==
    IF i > Len(csv) THEN <<>>
    ELSE (IF i \in Matched THEN <<>> ELSE <<RowId(i)>>) \o UnmatchedIds(i + 1)

\* C2: after a build step that processed the table, every session has a
\* non-empty identifier that is in the index; each identifier has as many
\* sessions as matched rows (so sessions and matched rows correspond one to
\* one, repeated identifiers included); and the rows with an empty or
\* unmatched identifier give no session and one diagnostic each, in order.
C2_SessionsMatchRows ==
    build_status = "done" =>
        /\ \A k \in 1..Len(Sessions) : Sessions[k].pmid # "" /\ Sessions[k].pmid \in DOMAIN ent_index
        /\ Len(Sessions) = Cardinality(Matched)
        /\ \A i \in Matched :
              Cardinality({k \in 1..Len(Sessions) : Sessions[k].pmid = RowId(i)})
                  = Cardinality({j \in Matched : RowId(j) = RowId(i)})
        /\ Len(diagnostics) = Len(csv) - Cardinality(Matched)
        /\ LET ids == UnmatchedIds(1)
           IN  diagnostics = [k \in 1..Len(ids) |-> Warning(ids[k])]

\* C2's case: a table with a matched row and an unmatched one has been built.
C2_Witness ==
    /\ BuildWrote
    /\ Len(Sessions) >= 1 /\ Len(diagnostics) >= 1
    /\ \E i \in 1..Len(csv) : RowId(i) = ""

\* C3: the rerun of the pipeline on the same files and table leaves both
\* artifacts as the first run left them.
C3_RerunIdentical ==
    Len(history) = 2 => history[2] = history[1]

\* C3's case: the second run has ended and wrote sessions and frequencies.
C3_Witness ==
    /\ Len(history) = 2 /\ step = "end"
    /\ journal_club # Absent /\ subject_summary # Absent
    /\ Len(Sessions) >= 2 /\ Len(subject_summary.doc) >= 2

\* C4: whichever step wrote it last, data/journal_club.json has the two
\* top-level keys, and its monthly summaries are those the build derived.
C4_TwoKeysKept ==
    journal_club # Absent =>
        /\ DOMAIN journal_club.doc = {"sessions", "monthly_summaries"}
        /\ journal_club.doc.monthly_summaries = Payload(BuildResult(tree, csv)).monthly_summaries

\* C4's state: the tag step has rewritten an artifact whose build had
\* monthly summaries.
C4_AfterTag ==
    /\ tag_status = "done" /\ step # "tag"
    /\ Payload(BuildResult(tree, csv)).monthly_summaries # <<>>

\* The date of the session of matched row i, the month its summary bundle
\* resolves to, and the bundle.
DateOfRow(i) ==
    normalize_date(Get(csv[i], "date"),
                   Or(Get(ArticleOf(i), "Publication_Date"), Get(ArticleOf(i), "PublicationDate")))

MonthOfRow(i) == normalize_month(Get(csv[i], "summary_month"), DateOfRow(i))

BundleOfRow(i) ==
    [month          |-> MonthOfRow(i),
     headline       |-> Curated(i, "summary_headline"),
     paragraph      |-> Curated(i, "summary_paragraph"),
     key_highlights |-> parse_highlights(Get(csv[i], "summary_highlights"))]

\* The bundle of every matched row.
Bundles == [i \in Matched |-> BundleOfRow(i)]

\* Among the bundles b, the rows that carry one for a month.
WithBundle(b) ==
    {i \in DOMAIN b :
        /\ b[i].month # ""
        /\ (b[i].headline # "" \/ b[i].paragraph # "" \/ b[i].key_highlights # <<>>)}

\* The first row in table order that carries a bundle for the month m.
FirstFor(b, m) ==
    CHOOSE f \in WithBundle(b) :
        /\ b[f].month = m
        /\ \A g \in WithBundle(b) : b[g].month = m => f <= g

\* The monthly summaries in data/journal_club.json.
Summaries == journal_club.doc.monthly_summaries

\* C5: in the artifact the build step writes, every month some matched row
\* carries a bundle for has exactly one entry, the bundle of the first such row
\* in table order; no other month has an entry; and the entries are in strictly
\* descending month order.
C5_FirstWinsPerMonth ==
    BuildWrote =>
        LET b == Bundles
            w == WithBundle(b)
        IN  /\ \A i \in w :
                  \E k \in 1..Len(Summaries) :
                      Summaries[k].month = b[i].month /\ Summaries[k] = b[FirstFor(b, b[i].month)]
            /\ \A k \in 1..Len(Summaries) : \E i \in w : Summaries[k].month = b[i].month
            /\ \A k \in 1..(Len(Summaries) - 1) : StrLess(Summaries[k + 1].month, Summaries[k].month)

\* C5's case: two matched rows carry different bundles for one month.
C5_Witness ==
    /\ BuildWrote
    /\ \E i, j \in WithBundle(Bundles) :
          i < j /\ Bundles[i].month = Bundles[j].month /\ Bundles[i] # Bundles[j]

\* C6: in data/journal_club.json, as the build step and as the tag step
\* write it, no session's date is less than the next one's under string
\* comparison.
C6_SortedByDateDesc ==
    journal_club # Absent =>
        \A k \in 1..(Len(Sessions) - 1) : ~StrLess(Sessions[k].date, Sessions[k + 1].date)

\* C6's case: the table had the later date first, and one of the two dates is
\* a pass-through string or empty.
C6_Witness ==
    /\ BuildWrote
    /\ Len(Sessions) >= 2
    /\ \E i, j \in Matched : i < j /\ StrLess(DateOfRow(i), DateOfRow(j))
    /\ \E k \in 1..Len(Sessions) : ~FromIsoFormat(Sessions[k].date).ok

\* The tags the text must get: the names of the rules with a matching pattern,
\* and the pediatric tag.
TopicTags == {SUBJECT_RULES[k].name : k \in {j \in 1..Len(SUBJECT_RULES) : RuleMatches(SUBJECT_RULES[j], Lower(arg_text))}}

\* C7: the classifier's result is strictly ascending (sorted, no duplicate);
\* it has a rule's tag iff a pattern of the rule matches, "Pediatrics" iff the
\* pediatric pattern matches, and the fallback tag iff nothing matches, then as
\* its only tag.
C7_Classifier ==
    "classify" \in ran =>
        LET got == {tags[k] : k \in 1..Len(tags)}
            ped == PediatricMatches(Lower(arg_text))
        IN  /\ \A k \in 1..(Len(tags) - 1) : StrLess(tags[k], tags[k + 1])
            /\ \A j \in 1..Len(SUBJECT_RULES) :
                  SUBJECT_RULES[j].name \in got <=> RuleMatches(SUBJECT_RULES[j], Lower(arg_text))
            /\ "Pediatrics" \in got <=> ped
            /\ "General ENT/Other" \in got <=> (TopicTags = {} /\ ~ped)
            /\ "General ENT/Other" \in got => tags = <<"General ENT/Other">>
            /\ got \subseteq TopicTags \cup {"Pediatrics", "General ENT/Other"}

\* C7's case: a text that matches two topic rules and the pediatric pattern.
C7_Witness ==
    /\ "classify" \in ran
    /\ Cardinality(TopicTags) >= 2
    /\ PediatricMatches(Lower(arg_text))

\* C8: the build step ends normally whatever the rows hold.
C8_NoRowAborts == step # "build" => build_status = "done"

\* C9: the session of a matched row has the normalisation of the first of
\* (curated date, publication date) that is non-empty after trimming, and an
\* empty date only when both are empty after trimming.
C9_FirstNonEmptyDate ==
    BuildWrote =>
        \A i \in Matched :
            LET curated == Curated(i, "date")
                pub     == Trimmed(Or(Get(ArticleOf(i), "Publication_Date"), Get(ArticleOf(i), "PublicationDate")))
                date    == DateOfRow(i)
            IN  /\ \E k \in 1..Len(Sessions) : Sessions[k].pmid = RowId(i) /\ Sessions[k].date = date
                /\ curated # "" => date = normalize_date(curated, "")
                /\ (curated = "" /\ pub # "") => date = normalize_date(pub, "")
                /\ date = "" => (curated = "" /\ pub = "")

\* The articles in discovery order, and the trimmed identifier of each.
RECURSIVE Discovered(_)
Discovered(files) == IF files = <<>> THEN <<>> ELSE Head(files) \o Discovered(Tail(files))

IdOf(a) == Trimmed(Str(GetD(a, "PMID", "")))

\* The positions in discovery order that carry the identifier id.
Carriers(id) == {j \in 1..Len(Discovered(tree)) : IdOf(Discovered(tree)[j]) = id}

\* The index has exactly the non-empty trimmed identifiers of the tree.
IndexesNonEmptyIds(index) ==
    DOMAIN index = {IdOf(Discovered(tree)[j]) : j \in 1..Len(Discovered(tree))} \ {""}

LastWins(index) ==
    /\ IndexesNonEmptyIds(index)
    /\ \A id \in DOMAIN index :
          index[id] = Discovered(tree)[CHOOSE j \in Carriers(id) : \A l \in Carriers(id) : l <= j]

FirstWins(index) ==
    /\ IndexesNonEmptyIds(index)
    /\ \A id \in DOMAIN index :
          index[id] = Discovered(tree)[CHOOSE j \in Carriers(id) : \A l \in Carriers(id) : j <= l]

\* C10 as stated: each index builder maps every non-empty trimmed identifier
\* to the article discovered last with it.
C10_BothLastWins ==
    /\ "build" \in ran => LastWins(ent_index)
    /\ "populate" \in ran => LastWins(populate_index)

\* C10 amended: the index of build_journal_club.py maps every non-empty
\* trimmed identifier of the tree to the article discovered last with it, the
\* index of populate_sessions.py to the article discovered first; neither
\* indexes an empty identifier; each is fixed by the discovery order.
C10_LastWinsBuildFirstWinsPopulate ==
    /\ "build" \in ran => LastWins(ent_index)
    /\ "populate" \in ran => FirstWins(populate_index)

\* C10's case: two different articles share an identifier, across two files,
\* and both builders have run.
C10_Witness ==
    /\ ran = {"build", "populate"}
    /\ Len(tree[1]) >= 1 /\ Len(tree[2]) >= 1
    /\ \E id \in DOMAIN ent_index : ent_index[id] # populate_index[id]

=============================================================================
